---- MODULE Spec2Model ----
(***************************************************************************)
(* A model of src/omxjpgdec.py: the JPEGDecoder class, which pairs an      *)
(* image_decode component with a resize component.                         *)
(*                                                                         *)
(* The application thread (constructor, Setup, ConvertFromFile, the        *)
(* negotiation handler, Close) is one sequential program, modelled by pc.  *)
(* The hardware (module omxilc, not part of src/) runs beside it: it       *)
(* returns buffers, raises settings-changed, error and end-of-stream       *)
(* events through callbacks that write shared flags, and it decides the    *)
(* outcome of every call and wait.  An application step covers the code    *)
(* between two reads of callback-written flags, so every order in which    *)
(* the callbacks and the application's reads and submissions can occur is  *)
(* an interleaving of the actions below.                                   *)
(***************************************************************************)
EXTENDS Integers, Sequences, FiniteSets, TLC

(***************************************************************************)
(* Bounds of the model.                                                    *)
(***************************************************************************)
MaxDim == 17          \* widths and heights tried by the constructor: 0..MaxDim
MaxSessions == 2      \* ConvertFromFile calls per instance
NumInBuf == 2         \* buffers the hardware registers on the decode input port
NumOutBuf == 1        \* buffers the hardware registers on the resize output port
MaxFileSteps == 3     \* input sizes tried: 0, FileStep, ..., MaxFileSteps*FileStep
FileStep == 6
PollBudget == 2       \* iterations of the end-of-stream poll (1000 at line 604)
MaxPortEvents == 1    \* decode settings-changed callbacks per session
MaxFaults == 1        \* failed calls, waits and reads and raised errors, per instance

(***************************************************************************)
(* Values.  Color and coding formats are named, not numbered (the numbers  *)
(* live in omxilc); NoChange is the -1 default of SetImagePortDefinition.  *)
(* An error code is a set of error bits: OMX_ErrorNone is the empty set    *)
(* and `e |= x' is the union.                                              *)
(***************************************************************************)
OMX_COLOR_FormatYUV420PackedPlanar == "YUV420PackedPlanar"
OMX_COLOR_Format16bitRGB565 == "16bitRGB565"
OMX_COLOR_Format32bitABGR8888 == "32bitABGR8888"
OMX_COLOR_FormatUnused == "ColorUnused"
OMX_COLOR_Format24bitRGB888 == "24bitRGB888"
OMX_IMAGE_CodingUnused == "CodingUnused"
OMX_IMAGE_CodingJPEG == "JPEG"
NoChange == "NoChange"

OMX_ErrorNone == {}
OMX_ErrorStreamCorrupt == {"StreamCorrupt"}
OMX_ErrorOther == {"Other"}
ErrFailure == {"Failure"}             \* the literal 1 returned at 383, 391, 398, 407, 440
ErrTimeout == {"Timeout"}
ErrHardware == {"Hardware"}
Or(a, b) == a \cup b

OMX_StateLoaded == "Loaded"
OMX_StateIdle == "Idle"
OMX_StateExecuting == "Executing"

OutFormats == {OMX_COLOR_FormatYUV420PackedPlanar, OMX_COLOR_Format16bitRGB565,
               OMX_COLOR_Format32bitABGR8888, OMX_COLOR_Format24bitRGB888}

omx_image_coding_names == {OMX_IMAGE_CodingUnused, OMX_IMAGE_CodingJPEG}
omx_color_format_names == {OMX_COLOR_FormatUnused, OMX_COLOR_FormatYUV420PackedPlanar,
                           OMX_COLOR_Format16bitRGB565, OMX_COLOR_Format32bitABGR8888,
                           OMX_COLOR_Format24bitRGB888}

Unset == -1            \* an attribute not assigned, a value not computed
NotCalled == {"NotCalled"}

Comps == {"decoder", "resizer"}
Ports == {"decoder_in_port", "decoder_out_port", "resizer_in_port", "resizer_out_port"}
NoPort == "port0"     \* the value 0 of port_changed and port_eos: no port

Min(a, b) == IF a < b THEN a ELSE b
Max(a, b) == IF a > b THEN a ELSE b

(***************************************************************************)
(* Pure computations of the constructor.                                   *)
(***************************************************************************)
\* a rounding that goes down instead of up
Align16Down(x) == (x \div 16) * 16
\* ((x + 15)/16)*16 with Python 2 integer division (lines 64-65, 69-70, 430-431)
Align16(x) == ((x + 15) \div 16) * 16

\* lines 64-66
InBufSize(wd, ht) == (Align16(wd) * Align16(ht)) \div 32

\* a size that takes RGB565 for one byte per pixel
OutBufSizeRgbAsYuv(wd, ht, fmt) ==
    LET sz == Align16(wd) * Align16(ht)
    IN  IF fmt = OMX_COLOR_FormatYUV420PackedPlanar THEN sz
        ELSE IF fmt = OMX_COLOR_Format16bitRGB565 THEN sz
        ELSE IF fmt = OMX_COLOR_Format32bitABGR8888 THEN sz * 4
        ELSE Unset
\* lines 69-81: Unset when the format is none of the three
OutBufSize(wd, ht, fmt) ==
    LET w == Align16(wd)
        h == Align16(ht)
        sz == w * h
    IN  IF fmt = OMX_COLOR_FormatYUV420PackedPlanar THEN sz
        ELSE IF fmt = OMX_COLOR_Format16bitRGB565 THEN sz * 2
        ELSE IF fmt = OMX_COLOR_Format32bitABGR8888 THEN sz * 4
        ELSE Unset

(***************************************************************************)
(* State.                                                                  *)
(***************************************************************************)
VARIABLES
    \* constructor parameters (lines 51-58)
    out_width, out_height, out_format, in_width, in_height, alt_setup,
    \* JPEGDecoder attributes
    ready, setup_complete, in_buf_size, out_buf_size, num_in_buf, num_out_buf,
    created,          \* both components exist (decoder.c_handle, resizer.c_handle)
    \* the two components, as the hardware binding keeps them
    current_state,    \* c_app_data.current_state of each component
    pool,             \* per port: its buffer pool is enabled
    tunnel,           \* decoder-resizer tunnel: "none", "placed" (disabled), "enabled"
    port_def,         \* per port: its port definition
    \* flags the hardware's callbacks write
    event_error,      \* decoder.c_app_data.event_error
    port_changed,     \* decoder.c_app_data.port_changed
    port_eos,         \* resizer.c_app_data.port_eos
    in_free,          \* buffer_free of each decode-input buffer
    out_free,         \* buffer_free of each resize-output buffer
    hw_in,            \* the hardware holds decode-input buffer n
    hw_out,           \* the hardware holds resize-output buffer n
    out_filled,       \* a buffer-filled completion is pending on the resize output
    \* ConvertFromFile's locals
    pc, file_name, f_size, to_read, n, n_ibuf_used, timer, in_hdr,
    sent,             \* the headers submitted on the decode input this session, in order
    \* observation
    ops,              \* the hardware calls issued by the last step, in order
    history,          \* per finished ConvertFromFile call: file, value returned, hw_ok
    result,           \* the last ConvertFromFile call as it ended
    hw_ok,            \* no call or wait failed and no error was raised this session
    corrupt_raised,   \* the decode stage raised StreamCorrupt during this session
    port_events,      \* settings-changed callbacks raised this session
    handler_e,        \* what the handler returned if the last application step invoked it
    handler_failed,   \* some handler invocation of this session returned an error
    faults,           \* hardware calls and waits that failed so far
    call              \* a SetImagePortDefinition call made on the instance: arguments, result

paramVars == <<out_width, out_height, out_format, in_width, in_height, alt_setup>>
objVars == <<ready, setup_complete, in_buf_size, out_buf_size, num_in_buf, num_out_buf, created>>
compVars == <<current_state, pool, tunnel, port_def>>
flagVars == <<event_error, port_changed, port_eos>>
bufVars == <<in_free, out_free, hw_in, hw_out, out_filled>>
locVars == <<file_name, f_size, to_read, n, n_ibuf_used, timer>>
sesVars == <<locVars, in_hdr, sent>>
obsVars == <<history, result, hw_ok, corrupt_raised, port_events,
            handler_e, handler_failed, faults>>
vars == <<paramVars, objVars, compVars, flagVars, bufVars, sesVars, obsVars, pc, ops, call>>

(***************************************************************************)
(* The hardware binding (omxilc), as the specification describes it.  Each *)
(* call works on a record h holding the components' state (state, pool,    *)
(* tunnel, def), the log of calls (ops) and the last return code (rc);     *)
(* `ok' is the outcome the hardware gives the call.                        *)
(***************************************************************************)
HwMinBufSize == 4     \* smallest buffer the hardware registers

CompOfPort(port) == IF port \in {"decoder_in_port", "decoder_out_port"}
                    THEN "decoder" ELSE "resizer"

DefaultPortDef(port) ==
    [eDomain |-> 2,
     eCompressionFormat |-> IF port = "decoder_in_port" THEN OMX_IMAGE_CodingJPEG
                            ELSE OMX_IMAGE_CodingUnused,
     eColorFormat |-> IF port = "decoder_in_port" THEN OMX_COLOR_FormatUnused
                      ELSE OMX_COLOR_FormatYUV420PackedPlanar,
     nFrameWidth |-> 0, nFrameHeight |-> 0, nStride |-> 0, nSliceHeight |-> 0,
     nBufferCountMin |-> 1, nBufferCountActual |-> 1]

\* a log entry: the call, its component and argument, the component's state and
\* the tunnel when it is issued, its outcome, and for a buffer submission the
\* buffer and whether the hardware already held it
Entry(name, comp, arg, at, tun, ok, buf, held, err) ==
    [op |-> name, comp |-> comp, arg |-> arg, at |-> at, tun |-> tun, ok |-> ok,
     buf |-> buf, held |-> held, err |-> err]

Logged(h, name, comp, arg, ok) ==
    Append(h.ops, Entry(name, comp, arg, h.state[comp], h.tunnel, ok, Unset, FALSE,
                        h.corrupt))

\* changeState(target, timeout): the stage reaches target, or StateChangeTimeout
ChangeState(h, comp, target, ok) ==
    [h EXCEPT !.ops = Logged(h, "ChangeState", comp, target, ok),
              !.state[comp] = IF ok THEN target ELSE @,
              !.rc = IF ok THEN OMX_ErrorNone ELSE ErrTimeout]

\* setPortFormat(port, coding, color)
SetImagePortFormat(h, port, coding, color, ok) ==
    [h EXCEPT !.ops = Logged(h, "SetImagePortFormat", CompOfPort(port), port, ok),
              !.def[port] = IF ok THEN [@ EXCEPT !.eCompressionFormat = coding,
                                                 !.eColorFormat = color]
                            ELSE @,
              !.rc = IF ok THEN OMX_ErrorNone ELSE ErrHardware]

\* getPortDefinition(port): rc, and the definition read when rc is none
GetPortDefinition(h, port, ok) ==
    [h EXCEPT !.ops = Logged(h, "GetPortDefinition", CompOfPort(port), port, ok),
              !.rc = IF ok THEN OMX_ErrorNone ELSE ErrHardware]

\* setPortDefinition(port, definition)
SetPortDefinition(h, port, d, ok) ==
    [h EXCEPT !.ops = Logged(h, "SetPortDefinition", CompOfPort(port), port, ok),
              !.def[port] = IF ok THEN d ELSE @,
              !.rc = IF ok THEN OMX_ErrorNone ELSE ErrHardware]

\* the per-buffer size the hardware uses for a request: at least the request
HwBufSize(size) == Max(size, HwMinBufSize)

HwBufCount(port) == IF port = "decoder_in_port" THEN NumInBuf ELSE NumOutBuf

\* enableBuffers(port, bufferSize): rc; h.bufs is the list returned, as
\* [count, size] (empty on BufferAllocationFailed)
EnableBuffers(h, port, size, ok) ==
    [h EXCEPT !.ops = Logged(h, "EnableBuffers", CompOfPort(port), port, ok),
              !.pool[port] = IF ok THEN TRUE ELSE @,
              !.bufs = IF ok THEN [count |-> HwBufCount(port), size |-> HwBufSize(size)]
                       ELSE [count |-> 0, size |-> 0],
              !.rc = IF ok THEN OMX_ErrorNone ELSE ErrHardware]

PlaceOutTunnel(h, ok) ==
    [h EXCEPT !.ops = Logged(h, "PlaceOutTunnel", "decoder", "decoder_out_port", ok),
              !.tunnel = IF ok THEN "placed" ELSE @,
              !.rc = IF ok THEN OMX_ErrorNone ELSE ErrHardware]

\* enabling needs a placed tunnel
EnableOutTunnel(h, ok) ==
    LET done == ok /\ h.tunnel # "none"
    IN  [h EXCEPT !.ops = Logged(h, "EnableOutTunnel", "decoder", "decoder_out_port", done),
                  !.tunnel = IF done THEN "enabled" ELSE @,
                  !.rc = IF done THEN OMX_ErrorNone ELSE ErrHardware]

DisableOutTunnel(h, ok) ==
    LET done == ok /\ h.tunnel # "none"
    IN  [h EXCEPT !.ops = Logged(h, "DisableOutTunnel", "decoder", "decoder_out_port", done),
                  !.tunnel = IF done THEN "placed" ELSE @,
                  !.rc = IF done THEN OMX_ErrorNone ELSE ErrHardware]

\* waitForPortSettingsChanged(port) on the resize output: within the timeout or not
WaitForResizerSettingsChanged(h, ok) ==
    [h EXCEPT !.ops = Logged(h, "WaitForPortSettingsChanged", "resizer", "resizer_out_port", ok),
              !.rc = IF ok THEN OMX_ErrorNone ELSE ErrTimeout]

\* `e |= <the call just made>'
Acc(h) == [h EXCEPT !.e = Or(@, h.rc)]

\* `e = <the call just made>'
Set(h) == [h EXCEPT !.e = h.rc]

(***************************************************************************)
(* JPEGDecoder methods that issue hardware calls.  h also carries the      *)
(* attributes and flags they read and write; o gives each call site its    *)
(* outcome.                                                                *)
(***************************************************************************)
AllOk(log) == \A i \in 1..Len(log) : log[i].ok

\* lines 300-320
CopyPortDefinition(h, src_port, dst_port, o) ==
    LET h1 == GetPortDefinition(h, src_port, o["copy_get"])
    IN  IF h1.rc # OMX_ErrorNone THEN h1
        ELSE SetPortDefinition(h1, dst_port, h1.def[src_port], o["copy_set"])

PortIndex(component_index, port_dir) ==
    IF component_index = 0
    THEN (IF port_dir = 0 THEN "decoder_in_port" ELSE "decoder_out_port")
    ELSE (IF port_dir = 0 THEN "resizer_in_port" ELSE "resizer_out_port")

\* lines 431-440: the stride of a row of w pixels, or Unset for a color
\* without a stride rule
StrideOf(color, w) ==
    IF color = OMX_COLOR_FormatYUV420PackedPlanar THEN w
    ELSE IF color = OMX_COLOR_Format16bitRGB565 THEN w * 2
    ELSE IF color = OMX_COLOR_Format32bitABGR8888 THEN w * 4
    ELSE Unset

\* lines 339-445; h.rc is the return value
SetImagePortDefinition(h, component_index, port_dir, coding, color, width, height, num_buffers, o) ==
    IF component_index \notin {0, 1} THEN [h EXCEPT !.rc = ErrFailure]
    ELSE
    LET port_index == PortIndex(component_index, port_dir)
        h1 == GetPortDefinition(h, port_index, o["def_get"])
        d0 == h1.def[port_index]
        useCoding == coding # NoChange           \* coding >= 0
        useColor == color # NoChange             \* color >= 0
        useWidth == width >= 0
        useHeight == height >= 0
        d1 == [d0 EXCEPT
                 !.eCompressionFormat = IF useCoding THEN coding ELSE @,
                 !.eColorFormat = IF useColor THEN color ELSE @,
                 !.nFrameWidth = IF useWidth THEN width ELSE @,
                 !.nFrameHeight = IF useHeight THEN height ELSE @,
                 !.nBufferCountActual = IF num_buffers > d0.nBufferCountMin
                                        THEN num_buffers ELSE @]
        nn == (IF useCoding THEN 1 ELSE 0) + (IF useColor THEN 1 ELSE 0)
              + (IF useWidth THEN 1 ELSE 0) + (IF useHeight THEN 1 ELSE 0)
        m == (IF useCoding THEN 1 ELSE 0) + (IF useColor THEN 1 ELSE 0)
        stride == StrideOf(d1.eColorFormat, Align16(d1.nFrameWidth))
        d2 == [d1 EXCEPT !.nSliceHeight = Align16(d1.nFrameHeight), !.nStride = stride]
    IN  IF h1.rc # OMX_ErrorNone THEN h1
        ELSE IF d0.eDomain # 2 THEN [h1 EXCEPT !.rc = ErrFailure]
        ELSE IF useCoding /\ coding \notin omx_image_coding_names
             THEN [h1 EXCEPT !.rc = ErrFailure]
        ELSE IF useColor /\ color \notin omx_color_format_names
             THEN [h1 EXCEPT !.rc = ErrFailure]
        ELSE IF nn <= 0 THEN [h1 EXCEPT !.rc = OMX_ErrorNone]
        ELSE IF nn > m
             THEN (IF stride = Unset THEN [h1 EXCEPT !.rc = ErrFailure]
                   ELSE SetPortDefinition(h1, port_index, d2, o["def_set"]))
        ELSE SetImagePortFormat(h1, port_index, d1.eCompressionFormat,
                                d1.eColorFormat, o["def_set"])

\* lines 323-336
resizerSetOutputDefinition(h, coding, color, width, height, num_buffers, o) ==
    SetImagePortDefinition(h, 1, 1, coding, color, width, height, num_buffers, o)

\* lines 204-213 and 286-295: enable the resize-output pool and adopt its size
EnableOutBuffers(h, o) ==
    LET h1 == EnableBuffers(h, "resizer_out_port", h.out_buf_size, o["out_bufs"])
        h2 == [Acc(h1) EXCEPT !.num_out_buf = h1.bufs.count, !.out_pool_new = TRUE]
    IN  IF h1.rc = OMX_ErrorNone /\ h1.bufs.size # h.out_buf_size
        THEN [h2 EXCEPT !.out_buf_size = h1.bufs.size]
        ELSE h2

\* lines 177-186
EnableInBuffers(h, o) ==
    LET h1 == EnableBuffers(h, "decoder_in_port", h.in_buf_size, o["in_bufs"])
        h2 == [Acc(h1) EXCEPT !.num_in_buf = h1.bufs.count, !.in_pool_new = TRUE]
    IN  IF h1.rc = OMX_ErrorNone /\ h1.bufs.size # h.in_buf_size
        THEN [h2 EXCEPT !.in_buf_size = h1.bufs.size]
        ELSE h2

\* lines 156-165: ensure that decoder and resizer are in state Loaded.  Line 163
\* reads c_app_data.current, which is no field of the structure: the read
\* raises AttributeError and the constructor ends there (h.raised).
EnsureLoaded(h, o) ==
    LET d1 == IF h.state["decoder"] # OMX_StateLoaded /\ h.state["decoder"] # OMX_StateIdle
              THEN Acc(ChangeState(h, "decoder", OMX_StateIdle, o["l_dec_idle"]))
              ELSE h
        d2 == IF h.state["decoder"] # OMX_StateLoaded
              THEN Acc(ChangeState(d1, "decoder", OMX_StateLoaded, o["l_dec_loaded"]))
              ELSE h
    IN  IF h.state["resizer"] # OMX_StateLoaded THEN [d2 EXCEPT !.raised = TRUE] ELSE d2

\* a Setup that sets the ready flag whatever e is
SetReadyAlways(h) == [h EXCEPT !.ready = TRUE, !.rc = h.e]
\* lines 215-220: set the ready flag, return e
SetReady(h) ==
    IF h.e = OMX_ErrorNone THEN [h EXCEPT !.ready = TRUE, !.rc = h.e]
    ELSE [h EXCEPT !.rc = h.e]

\* a Setup that starts the resize stage before its pool is enabled
SetupResizerStarted(h, o) ==
    LET h0 == EnsureLoaded([h EXCEPT !.e = OMX_ErrorNone], o)
        h1 == Acc(SetImagePortFormat(h0, "decoder_in_port", OMX_IMAGE_CodingJPEG,
                                     OMX_COLOR_FormatUnused, o["fmt"]))
        h2 == Acc(ChangeState(h1, "decoder", OMX_StateIdle, o["dec_idle"]))
        h3 == Acc(ChangeState(h2, "decoder", OMX_StateExecuting, o["dec_exec"]))
        h4 == EnableInBuffers(h3, o)
        h5 == IF alt_setup # 0 THEN [h4 EXCEPT !.num_out_buf = 0]
              ELSE LET r1 == Acc(resizerSetOutputDefinition(h4, OMX_IMAGE_CodingUnused,
                                     out_format, out_width, out_height, 0, o))
                       r2 == Acc(ChangeState(r1, "resizer", OMX_StateIdle, o["rsz_idle"]))
                       r3 == Acc(ChangeState(r2, "resizer", OMX_StateExecuting, o["rsz_idle"]))
                   IN  EnableOutBuffers(r3, o)
    IN  IF h0.raised THEN h0 ELSE SetReady(h5)
\* lines 143-220
Setup(h, o) ==
    LET h0 == EnsureLoaded([h EXCEPT !.e = OMX_ErrorNone], o)
        h1 == Acc(SetImagePortFormat(h0, "decoder_in_port", OMX_IMAGE_CodingJPEG,
                                     OMX_COLOR_FormatUnused, o["fmt"]))
        h2 == Acc(ChangeState(h1, "decoder", OMX_StateIdle, o["dec_idle"]))
        h3 == Acc(ChangeState(h2, "decoder", OMX_StateExecuting, o["dec_exec"]))
        h4 == EnableInBuffers(h3, o)
        h5 == IF alt_setup # 0 THEN [h4 EXCEPT !.num_out_buf = 0]
              ELSE LET r1 == Acc(resizerSetOutputDefinition(h4, OMX_IMAGE_CodingUnused,
                                     out_format, out_width, out_height, 0, o))
                       r2 == Acc(ChangeState(r1, "resizer", OMX_StateIdle, o["rsz_idle"]))
                   IN  EnableOutBuffers(r2, o)
    IN  IF h0.raised THEN h0 ELSE SetReady(h5)

\* a tunnel setup that starts the resize stage before the tunnel is placed
SetupTunnelStartedFirst(h, o) ==
    LET h1 == Set(CopyPortDefinition(h, "decoder_out_port", "resizer_in_port", o))
        h2 == Acc(ChangeState(h1, "resizer", OMX_StateExecuting, o["rsz_exec"]))
        h3 == Acc(PlaceOutTunnel(h2, o["place"]))
        h4 == Acc(EnableOutTunnel(h3, o["enable"]))
        h5 == WaitForResizerSettingsChanged(h4, o["rsz_wait"])
    IN  [h5 EXCEPT !.rc = h4.e, !.e = h4.e]
\* lines 223-254: the result of the wait at line 252 is dropped
SetupTunnel(h, o) ==
    LET h1 == Set(CopyPortDefinition(h, "decoder_out_port", "resizer_in_port", o))
        h2 == Acc(PlaceOutTunnel(h1, o["place"]))
        h3 == Acc(ChangeState(h2, "resizer", OMX_StateExecuting, o["rsz_exec"]))
        h4 == Acc(EnableOutTunnel(h3, o["enable"]))
        h5 == WaitForResizerSettingsChanged(h4, o["rsz_wait"])
    IN  [h5 EXCEPT !.rc = h4.e, !.e = h4.e]

\* an alternate completion that enables the resize-output pool first
SetupPipePoolFirst(h, o) ==
    IF alt_setup = 0 THEN SetupTunnel(h, o)
    ELSE
    LET h1 == Set(resizerSetOutputDefinition(h, OMX_IMAGE_CodingUnused, out_format,
                                             out_width, out_height, 0, o))
        h2 == Acc(ChangeState(h1, "resizer", OMX_StateIdle, o["rsz_idle"]))
        h3 == EnableOutBuffers(h2, o)
        t  == SetupTunnel(h3, o)
        h4 == [t EXCEPT !.e = Or(h3.e, t.rc)]
    IN  [h4 EXCEPT !.rc = h4.e]
\* an alternate completion that leaves the tunnel out
SetupPipeWithoutTunnel(h, o) ==
    IF alt_setup = 0 THEN SetupTunnel(h, o)
    ELSE
    LET h1 == Set(resizerSetOutputDefinition(h, OMX_IMAGE_CodingUnused, out_format,
                                             out_width, out_height, 0, o))
        h2 == Acc(ChangeState(h1, "resizer", OMX_StateIdle, o["rsz_idle"]))
        h4 == EnableOutBuffers(h2, o)
    IN  [h4 EXCEPT !.rc = h4.e]
\* lines 257-297
SetupPipe(h, o) ==
    IF alt_setup = 0 THEN SetupTunnel(h, o)
    ELSE
    LET h1 == Set(resizerSetOutputDefinition(h, OMX_IMAGE_CodingUnused, out_format,
                                             out_width, out_height, 0, o))
        h2 == Acc(ChangeState(h1, "resizer", OMX_StateIdle, o["rsz_idle"]))
        t  == SetupTunnel(h2, o)
        h3 == [t EXCEPT !.e = Or(h2.e, t.rc)]
        h4 == EnableOutBuffers(h3, o)
    IN  [h4 EXCEPT !.rc = h4.e]

\* a lighter path that does not enable the tunnel again
RenegotiateNoEnable(c, o) ==
    LET l0 == [c EXCEPT !.port_changed = NoPort]
        l1 == Set(DisableOutTunnel(l0, o["disable"]))
        l2 == Acc(CopyPortDefinition(l1, "decoder_out_port", "resizer_in_port", o))
        l4 == WaitForResizerSettingsChanged(l2, o["rsz_wait"])
    IN  IF c.port_changed # "decoder_out_port" THEN [c EXCEPT !.rc = OMX_ErrorNone]
        ELSE [l4 EXCEPT !.rc = l2.e]
\* lines 480-503, the lighter path: the result of the wait at line 501 is dropped
Renegotiate(c, o) ==
    LET l0 == [c EXCEPT !.port_changed = NoPort]
        l1 == Set(DisableOutTunnel(l0, o["disable"]))
        l2 == Acc(CopyPortDefinition(l1, "decoder_out_port", "resizer_in_port", o))
        l3 == Acc(EnableOutTunnel(l2, o["enable"]))
        l4 == WaitForResizerSettingsChanged(l3, o["rsz_wait"])
    IN  IF c.port_changed # "decoder_out_port" THEN [c EXCEPT !.rc = OMX_ErrorNone]
        ELSE [l4 EXCEPT !.rc = l3.e]

\* a handler that takes the first-time path whatever setup_complete is
decoderHandleAlwaysFirstTime(h, o) ==
    LET e0 == h.event_error
        c  == IF e0 # OMX_ErrorNone THEN [h EXCEPT !.event_error = OMX_ErrorNone] ELSE h
        got == c.port_changed = "decoder_out_port" \/ o["dec_wait"]
        w  == [c EXCEPT !.ops = Logged(c, "WaitForPortSettingsChanged", "decoder",
                                       "decoder_out_port", got),
                        !.rc = IF got THEN OMX_ErrorNone ELSE ErrTimeout]
        p  == SetupPipe([w EXCEPT !.port_changed = NoPort], o)
    IN  IF e0 = OMX_ErrorStreamCorrupt THEN [c EXCEPT !.rc = e0]
        ELSE IF TRUE
             THEN (IF w.rc # OMX_ErrorNone THEN w
                   ELSE IF p.rc = OMX_ErrorNone THEN [p EXCEPT !.setup_complete = TRUE]
                   ELSE p)
        ELSE Renegotiate(c, o)
\* a handler whose first-time path reports success when SetupPipe failed
decoderHandleHidesSetupFailure(h, o) ==
    LET e0 == h.event_error
        c  == IF e0 # OMX_ErrorNone THEN [h EXCEPT !.event_error = OMX_ErrorNone] ELSE h
        got == c.port_changed = "decoder_out_port" \/ o["dec_wait"]
        w  == [c EXCEPT !.ops = Logged(c, "WaitForPortSettingsChanged", "decoder",
                                       "decoder_out_port", got),
                        !.rc = IF got THEN OMX_ErrorNone ELSE ErrTimeout]
        p  == SetupPipe([w EXCEPT !.port_changed = NoPort], o)
    IN  IF e0 = OMX_ErrorStreamCorrupt THEN [c EXCEPT !.rc = e0]
        ELSE IF ~h.setup_complete
             THEN (IF w.rc # OMX_ErrorNone THEN w
                   ELSE IF p.rc = OMX_ErrorNone THEN [p EXCEPT !.setup_complete = TRUE]
                   ELSE [p EXCEPT !.rc = OMX_ErrorNone])
        ELSE Renegotiate(c, o)
\* lines 448-503; h.rc is the return value.  The wait at line 470 returns at
\* once when the event is pending, and otherwise succeeds if the event arrives
\* within the timeout (o["dec_wait"]).
decoderHandleOutSettingsChanged(h, o) ==
    LET e0 == h.event_error
        c  == IF e0 # OMX_ErrorNone THEN [h EXCEPT !.event_error = OMX_ErrorNone] ELSE h
        got == c.port_changed = "decoder_out_port" \/ o["dec_wait"]
        w  == [c EXCEPT !.ops = Logged(c, "WaitForPortSettingsChanged", "decoder",
                                       "decoder_out_port", got),
                        !.rc = IF got THEN OMX_ErrorNone ELSE ErrTimeout]
        p  == SetupPipe([w EXCEPT !.port_changed = NoPort], o)
    IN  IF e0 = OMX_ErrorStreamCorrupt THEN [c EXCEPT !.rc = e0]
        ELSE IF ~h.setup_complete
             THEN (IF w.rc # OMX_ErrorNone THEN w
                   ELSE IF p.rc = OMX_ErrorNone THEN [p EXCEPT !.setup_complete = TRUE]
                   ELSE p)
        ELSE Renegotiate(c, o)

(***************************************************************************)
(* Initial states: a JPEGDecoder(...) call about to run.                   *)
(***************************************************************************)
NoBufs == [i \in {} |-> 0]
NoHeader == [nFilledLen |-> 0, nOffset |-> 0, nFlags |-> 0]
OMX_BUFFERFLAG_EOS == 1

\* a file name: no such file, or a file of some size
Missing == [exists |-> FALSE, size |-> 0]
Files == {Missing} \cup {[exists |-> TRUE, size |-> k * FileStep] : k \in 0..MaxFileSteps}

NoResult == [done |-> FALSE, file |-> Missing, ret |-> 0,
             ready |-> FALSE, handler_failed |-> FALSE, eos |-> FALSE,
             filled |-> FALSE, hw_ok |-> TRUE, corrupt_raised |-> FALSE]

\* no SetImagePortDefinition call was made
NoCall == [made |-> FALSE, component_index |-> 0, port_dir |-> 0, coding |-> NoChange,
           color |-> NoChange, width |-> -1, height |-> -1, num_buffers |-> 0,
           before |-> DefaultPortDef("decoder_in_port"), rc |-> OMX_ErrorNone]

InitWith(dims, inDims, formats) ==
    /\ out_width \in dims /\ out_height \in dims
    /\ in_width \in inDims /\ in_height \in inDims
    /\ out_format \in formats
    /\ alt_setup \in {0, 1}
    /\ ready = FALSE /\ setup_complete = FALSE
    /\ in_buf_size = Unset /\ out_buf_size = Unset
    /\ num_in_buf = 0 /\ num_out_buf = 0
    /\ created = FALSE
    /\ current_state = [c \in Comps |-> "Unloaded"]
    /\ pool = [p \in Ports |-> FALSE]
    /\ tunnel = "none"
    /\ port_def = [p \in Ports |-> DefaultPortDef(p)]
    /\ event_error = OMX_ErrorNone /\ port_changed = NoPort /\ port_eos = NoPort
    /\ in_free = NoBufs /\ out_free = NoBufs /\ hw_in = NoBufs /\ hw_out = NoBufs
    /\ out_filled = FALSE
    /\ pc = "new"
    /\ file_name = Missing /\ f_size = 0 /\ to_read = 0 /\ n = 0 /\ n_ibuf_used = 0 /\ timer = 0
    /\ in_hdr = NoBufs /\ sent = <<>>
    /\ ops = <<>> /\ history = <<>> /\ result = NoResult
    /\ hw_ok = TRUE /\ corrupt_raised = FALSE
    /\ port_events = 0
    /\ handler_e = NotCalled /\ handler_failed = FALSE
    /\ faults = 0
    /\ call = NoCall

\* the threaded record for the state at hand
Here ==
    [state |-> current_state, pool |-> pool, tunnel |-> tunnel, def |-> port_def,
     ops |-> <<>>, rc |-> OMX_ErrorNone, e |-> OMX_ErrorNone,
     bufs |-> [count |-> 0, size |-> 0], raised |-> FALSE,
     in_pool_new |-> FALSE, out_pool_new |-> FALSE,
     ready |-> ready, setup_complete |-> setup_complete,
     in_buf_size |-> in_buf_size, out_buf_size |-> out_buf_size,
     num_in_buf |-> num_in_buf, num_out_buf |-> num_out_buf,
     event_error |-> event_error, port_changed |-> port_changed,
     corrupt |-> corrupt_raised]

\* the state after a method ran: r is its final record
Adopt(r) ==
    /\ current_state' = r.state /\ pool' = r.pool /\ tunnel' = r.tunnel
    /\ port_def' = r.def
    /\ ops' = r.ops
    /\ ready' = r.ready /\ setup_complete' = r.setup_complete
    /\ in_buf_size' = r.in_buf_size /\ out_buf_size' = r.out_buf_size
    /\ num_in_buf' = r.num_in_buf /\ num_out_buf' = r.num_out_buf
    /\ event_error' = r.event_error /\ port_changed' = r.port_changed
    /\ in_free' = IF r.in_pool_new THEN [i \in 0..(r.num_in_buf - 1) |-> 1] ELSE in_free
    /\ hw_in' = IF r.in_pool_new THEN [i \in 0..(r.num_in_buf - 1) |-> FALSE] ELSE hw_in
    /\ in_hdr' = IF r.in_pool_new THEN [i \in 0..(r.num_in_buf - 1) |-> NoHeader]
                 ELSE in_hdr
    /\ out_free' = IF r.out_pool_new THEN [i \in 0..(r.num_out_buf - 1) |-> 1] ELSE out_free
    /\ hw_out' = IF r.out_pool_new THEN [i \in 0..(r.num_out_buf - 1) |-> FALSE] ELSE hw_out

(***************************************************************************)
(* The constructor, lines 31-120.                                          *)
(***************************************************************************)
\* lines 50-81: save the parameters, compute the buffer sizes
Construct ==
    /\ pc = "new"
    /\ in_buf_size' = InBufSize(in_width, in_height)
    /\ out_buf_size' = OutBufSize(out_width, out_height, out_format)
    /\ pc' = IF out_buf_size' = Unset THEN "idle" ELSE "create"
    /\ ops' = <<>>
    /\ UNCHANGED <<paramVars, call, ready, setup_complete, num_in_buf, num_out_buf, created,
                   compVars, flagVars, bufVars, sesVars, obsVars>>

\* lines 83-117: create both components and find the four image ports
CreateComponents ==
    /\ pc = "create"
    /\ \E made \in BOOLEAN, four \in BOOLEAN :
         /\ created' = made
         /\ current_state' = IF made THEN [c \in Comps |-> OMX_StateLoaded]
                             ELSE current_state
         /\ pc' = IF made /\ four THEN "setup" ELSE "idle"
         /\ ops' = <<Entry("omxComponent", "decoder", "image_decode", "Unloaded",
                           tunnel, made, Unset, FALSE, FALSE),
                     Entry("omxComponent", "resizer", "resize", "Unloaded",
                           tunnel, made, Unset, FALSE, FALSE)>>
    /\ UNCHANGED <<paramVars, call, ready, setup_complete, in_buf_size, out_buf_size,
                   num_in_buf, num_out_buf, pool, tunnel, port_def,
                   flagVars, bufVars, sesVars, obsVars>>

SetupSites == {"l_dec_idle", "l_dec_loaded", "fmt", "dec_idle", "dec_exec", "in_bufs",
               "def_get", "def_set", "rsz_idle", "out_bufs"}

\* the outcomes that fail at most k of the sites
RECURSIVE FailSets(_, _)
FailSets(sites, k) ==
    IF k <= 0 THEN {{}}
    ELSE LET prev == FailSets(sites, k - 1)
         IN  prev \cup {F \cup {s} : F \in prev, s \in sites}

Outcomes(sites, k) == {[s \in sites |-> s \notin F] : F \in FailSets(sites, k)}

Failed(log) == Cardinality({i \in 1..Len(log) : ~log[i].ok})

\* line 120
DoSetup ==
    /\ pc = "setup"
    /\ \E o \in Outcomes(SetupSites, MaxFaults - faults) :
         \E r \in {Setup(Here, o)} :
             Adopt(r) /\ faults' = faults + Failed(r.ops)
    /\ pc' = "idle"
    /\ UNCHANGED <<paramVars, call, created, port_eos, out_filled, locVars, sent,
                   history, result, hw_ok, corrupt_raised, port_events,
                   handler_e, handler_failed>>

(***************************************************************************)
(* ConvertFromFile, lines 522-616.                                         *)
(***************************************************************************)
InSession == pc \in {"scan", "handle", "fill", "tail", "poll", "eos_check"}

\* the call returns value: one more record in history
Return(file, value, eos, filled) ==
    /\ history' = Append(history, [file |-> file, ret |-> value, hw_ok |-> hw_ok'])
    /\ result' = [done |-> TRUE, file |-> file, ret |-> value, ready |-> ready,
                  handler_failed |-> handler_failed', eos |-> eos, filled |-> filled,
                  hw_ok |-> hw_ok', corrupt_raised |-> corrupt_raised]
    /\ pc' = "idle"

HandlerSites == {"dec_wait", "copy_get", "copy_set", "place", "rsz_exec", "enable",
                 "rsz_wait", "def_get", "def_set", "rsz_idle", "out_bufs", "disable"}

\* one invocation of the handler: its effects, and what it returned
Invoke(r) ==
    /\ Adopt(r)
    /\ handler_e' = r.rc
    /\ handler_failed' = (handler_failed \/ r.rc # OMX_ErrorNone)
    /\ hw_ok' = (hw_ok /\ AllOk(r.ops))
    /\ faults' = faults + Failed(r.ops)

\* a check that looks at the ready flag alone
RejectedNotReady(file) == ~ready
\* lines 533-546: the call returns 0 at once
Rejected(file) == ~ready \/ ~file.exists \/ file.size <= 0

\* lines 531-557: the checks, FreeIOBuffers, ResetCallbackPortFlags
ConvertFromFile ==
    /\ pc = "idle"
    /\ Len(history) < MaxSessions
    /\ \E file \in Files :
         /\ hw_ok' = TRUE /\ corrupt_raised' = FALSE
         /\ port_events' = 0
         /\ handler_e' = NotCalled /\ handler_failed' = FALSE
         /\ ops' = <<>>
         /\ file_name' = file
         /\ IF Rejected(file)
            THEN /\ Return(file, 0, FALSE, FALSE)
                 /\ UNCHANGED <<in_free, out_free, port_changed, port_eos, f_size, to_read,
                                n, n_ibuf_used, timer, in_hdr, sent>>
            ELSE /\ in_free' = [i \in DOMAIN in_free |->
                                   IF i < num_in_buf THEN 1 ELSE in_free[i]]
                 /\ out_free' = [i \in DOMAIN out_free |->
                                    IF i < num_out_buf THEN 1 ELSE out_free[i]]
                 /\ port_changed' = NoPort /\ port_eos' = NoPort
                 /\ f_size' = file.size /\ to_read' = file.size
                 /\ n' = 0 /\ n_ibuf_used' = 0 /\ timer' = 0
                 /\ pc' = "scan"
                 /\ result' = NoResult
                 /\ sent' = <<>>
                 /\ UNCHANGED <<in_hdr, history>>
    /\ UNCHANGED <<paramVars, call, objVars, compVars, event_error, hw_in, hw_out,
                   out_filled, faults>>

\* a header that never carries the end-of-stream flag
HeaderNoEos(n_read, left) == [nFilledLen |-> n_read, nOffset |-> 0, nFlags |-> 0]
\* lines 577-582: the header of a chunk of n_read bytes, with left bytes unread
Header(n_read, left) ==
    [nFilledLen |-> n_read, nOffset |-> 0,
     nFlags |-> IF left > 0 THEN 0 ELSE OMX_BUFFERFLAG_EOS]

\* lines 562-583: one turn of the for loop over the decode-input buffers
Scan ==
    /\ pc = "scan"
    /\ IF n >= num_in_buf
       THEN /\ pc' = "tail"
            /\ ops' = <<>>
            /\ UNCHANGED <<in_free, hw_in, to_read, n, n_ibuf_used, in_hdr, sent, hw_ok, faults>>
       ELSE IF in_free[n] = 0
       THEN /\ n' = n + 1
            /\ pc' = "scan"
            /\ ops' = <<>>
            /\ UNCHANGED <<in_free, hw_in, to_read, n_ibuf_used, in_hdr, sent, hw_ok, faults>>
       ELSE /\ in_free' = [in_free EXCEPT ![n] = 0]
            /\ n_ibuf_used' = n_ibuf_used + 1
            /\ \E n_read \in {Min(in_buf_size, to_read)}
                              \cup (IF faults < MaxFaults THEN {0} ELSE {}) :
                 IF n_read <= 0
                 THEN /\ pc' = "tail"
                      /\ hw_ok' = FALSE /\ faults' = faults + 1
                      /\ ops' = <<>>
                      /\ UNCHANGED <<hw_in, to_read, n, in_hdr, sent>>
                 ELSE /\ to_read' = to_read - n_read
                      /\ in_hdr' = [in_hdr EXCEPT ![n] = Header(n_read, to_read')]
                      /\ sent' = Append(sent, in_hdr'[n])
                      /\ ops' = <<Entry("EmptyThisBuffer", "decoder", "decoder_in_port",
                                        current_state["decoder"], tunnel, TRUE, n,
                                        hw_in[n], corrupt_raised)>>
                      /\ hw_in' = [hw_in EXCEPT ![n] = TRUE]
                      /\ pc' = "handle"
                      /\ UNCHANGED <<n, hw_ok, faults>>
    /\ handler_e' = NotCalled
    /\ UNCHANGED <<paramVars, call, objVars, compVars, flagVars, out_free, hw_out, out_filled,
                   file_name, f_size, timer, history, result, corrupt_raised, port_events,
                   handler_failed>>

\* a loop body that goes on to the fill request without calling the handler
HandleSkipped ==
    /\ pc = "handle"
    /\ pc' = "fill"
    /\ ops' = <<>>
    /\ handler_e' = NotCalled
    /\ UNCHANGED <<paramVars, call, objVars, compVars, flagVars, bufVars, sesVars, history, result,
                   hw_ok, corrupt_raised, port_events, handler_failed, faults>>
\* lines 585-586: the handler, right after a submission
Handle ==
    /\ pc = "handle"
    /\ \E o \in Outcomes(HandlerSites, MaxFaults - faults) :
         \E r \in {decoderHandleOutSettingsChanged(Here, o)} :
             /\ Invoke(r)
             /\ IF r.rc # OMX_ErrorNone
                THEN Return(file_name, 0, FALSE, FALSE)
                ELSE pc' = "fill" /\ UNCHANGED <<history, result>>
    /\ UNCHANGED <<paramVars, call, created, port_eos, out_filled, locVars, sent,
                   corrupt_raised, port_events>>

\* lines 588-594: request a fill of resize-output buffer 0, then go on or break
Fill ==
    /\ pc = "fill"
    /\ IF num_out_buf > 0
       THEN /\ ops' = <<Entry("FillThisBuffer", "resizer", "resizer_out_port",
                              current_state["resizer"], tunnel, TRUE, 0, hw_out[0],
                              corrupt_raised)>>
            /\ hw_out' = [hw_out EXCEPT ![0] = TRUE]
       ELSE ops' = <<>> /\ UNCHANGED hw_out
    /\ IF to_read <= 0
       THEN pc' = "tail" /\ UNCHANGED n
       ELSE pc' = "scan" /\ n' = n + 1
    /\ UNCHANGED <<paramVars, call, objVars, compVars, flagVars, in_free, out_free, hw_in,
                   out_filled, file_name, f_size, to_read, n_ibuf_used, timer, in_hdr, sent,
                   history, result, hw_ok, corrupt_raised, port_events, handler_failed,
                   faults>>
    /\ handler_e' = NotCalled

\* lines 596-600, then the test of the while loop at 560
LoopTail ==
    /\ pc = "tail"
    /\ \E o \in Outcomes(HandlerSites, MaxFaults - faults) :
         \E r \in {decoderHandleOutSettingsChanged(Here, o)} :
             /\ Invoke(r)
             /\ IF r.rc # OMX_ErrorNone
                THEN Return(file_name, 0, FALSE, FALSE) /\ UNCHANGED <<n, n_ibuf_used, timer>>
                ELSE /\ UNCHANGED <<history, result>>
                     /\ IF to_read > 0
                        THEN pc' = "scan" /\ n' = 0 /\ n_ibuf_used' = 0 /\ UNCHANGED timer
                        ELSE pc' = "poll" /\ timer' = 0 /\ UNCHANGED <<n, n_ibuf_used>>
    /\ UNCHANGED <<paramVars, call, created, port_eos, out_filled, file_name, f_size, to_read,
                   sent, corrupt_raised, port_events>>

\* lines 603-608: one turn of the end-of-stream poll
Poll ==
    /\ pc = "poll"
    /\ IF port_eos # "resizer_out_port" /\ timer < PollBudget
       THEN \E o \in Outcomes(HandlerSites, MaxFaults - faults) :
              \E r \in {decoderHandleOutSettingsChanged(Here, o)} :
                  /\ Invoke(r)
                  /\ IF r.rc # OMX_ErrorNone
                     THEN Return(file_name, 0, FALSE, FALSE) /\ UNCHANGED timer
                     ELSE pc' = "poll" /\ timer' = timer + 1 /\ UNCHANGED <<history, result>>
       ELSE /\ pc' = "eos_check"
            /\ ops' = <<>>
            /\ handler_e' = NotCalled
            /\ UNCHANGED <<objVars, compVars, event_error, port_changed, in_free, out_free,
                           hw_in, hw_out, in_hdr, timer, history, result, hw_ok,
                           handler_failed, faults>>
    /\ UNCHANGED <<paramVars, call, created, port_eos, out_filled, file_name, f_size, to_read, n,
                   n_ibuf_used, sent, corrupt_raised, port_events>>

\* a return that ignores the buffer-filled wait
ConvertedIgnoringWait(eos_seen, wait_rc) == IF ~eos_seen THEN 0 ELSE f_size
\* lines 609-616: what the call returns once the poll has ended
Converted(eos_seen, wait_rc) ==
    IF ~eos_seen THEN 0
    ELSE IF wait_rc # OMX_ErrorNone THEN 0
    ELSE f_size

\* lines 609-616: the end-of-stream check and WaitForBufferFilled.  The wait
\* returns at once when a completion is pending, and otherwise succeeds if the
\* hardware fills a buffer it holds within the timeout.  An end-of-stream
\* marker that does not come through an enabled tunnel is the hardware's fault.
EosCheck ==
    /\ pc = "eos_check"
    /\ ops' = <<>>
    /\ handler_e' = NotCalled
    /\ UNCHANGED <<paramVars, call, objVars, compVars, flagVars, in_free, hw_in, sesVars,
                   corrupt_raised, port_events, handler_failed>>
    /\ LET eos_seen == port_eos = "resizer_out_port"
       IN  IF ~eos_seen
           THEN /\ hw_ok' = (hw_ok /\ tunnel # "enabled")
                /\ Return(file_name, Converted(eos_seen, OMX_ErrorNone), eos_seen, FALSE)
                /\ UNCHANGED <<out_free, hw_out, out_filled, faults>>
           ELSE \/ /\ out_filled
                   /\ out_filled' = FALSE
                   /\ UNCHANGED <<out_free, hw_out, hw_ok, faults>>
                   /\ Return(file_name, Converted(eos_seen, OMX_ErrorNone), eos_seen, TRUE)
                \/ /\ ~out_filled
                   /\ \E i \in DOMAIN hw_out :
                        /\ hw_out[i]
                        /\ hw_out' = [hw_out EXCEPT ![i] = FALSE]
                        /\ out_free' = [out_free EXCEPT ![i] = 1]
                   /\ UNCHANGED <<out_filled, hw_ok, faults>>
                   /\ Return(file_name, Converted(eos_seen, OMX_ErrorNone), eos_seen, TRUE)
                \/ /\ ~out_filled
                   /\ faults < MaxFaults
                   /\ hw_ok' = FALSE /\ faults' = faults + 1
                   /\ UNCHANGED <<out_free, hw_out, out_filled>>
                   /\ Return(file_name, Converted(eos_seen, ErrTimeout), eos_seen, FALSE)

\* lines 123-140
Close ==
    /\ pc = "idle"
    /\ created
    /\ tunnel' = "none"
    /\ current_state' = [c \in Comps |-> "Unloaded"]
    /\ pool' = [p \in Ports |-> FALSE]
    /\ ops' = <<Entry("RemoveOutTunnel", "decoder", "resizer", current_state["decoder"],
                      tunnel, TRUE, Unset, FALSE, FALSE),
                Entry("Close", "decoder", "", current_state["decoder"], tunnel, TRUE, Unset, FALSE, FALSE),
                Entry("Close", "resizer", "", current_state["resizer"], tunnel, TRUE, Unset, FALSE, FALSE)>>
    /\ pc' = "closed"
    /\ handler_e' = NotCalled
    /\ UNCHANGED <<paramVars, call, objVars, port_def, flagVars, bufVars, sesVars, history, result,
                   hw_ok, corrupt_raised, port_events, handler_failed, faults>>

(***************************************************************************)
(* The hardware's callbacks, which run beside the session loop.            *)
(***************************************************************************)
\* EmptyBufferDone: the decode stage returns an input buffer
HwEmptyBufferDone ==
    /\ InSession
    /\ \E i \in DOMAIN hw_in :
         /\ hw_in[i]
         /\ hw_in' = [hw_in EXCEPT ![i] = FALSE]
         /\ in_free' = [in_free EXCEPT ![i] = 1]
    /\ UNCHANGED <<paramVars, call, objVars, compVars, flagVars, out_free, hw_out, out_filled,
                   sesVars, obsVars, pc, ops>>

\* the decode stage has parsed the header: its output port's settings changed
HwPortSettingsChanged ==
    /\ InSession
    /\ to_read < f_size
    /\ port_events < MaxPortEvents
    /\ port_events' = port_events + 1
    /\ port_changed' = "decoder_out_port"
    /\ port_def' = [port_def EXCEPT !["decoder_out_port"] =
                      [@ EXCEPT !.nFrameWidth = in_width, !.nFrameHeight = in_height,
                                !.nStride = Align16(in_width),
                                !.nSliceHeight = Align16(in_height)]]
    /\ UNCHANGED <<paramVars, call, objVars, current_state, pool, tunnel, event_error, port_eos,
                   bufVars, sesVars, history, result, hw_ok, corrupt_raised,
                   handler_e, handler_failed, faults, pc, ops>>

\* the decode stage reports an asynchronous error
HwError ==
    /\ InSession
    /\ to_read < f_size
    /\ faults < MaxFaults
    /\ faults' = faults + 1
    /\ \E code \in {OMX_ErrorStreamCorrupt, OMX_ErrorOther} :
         /\ event_error' = code
         /\ corrupt_raised' = (corrupt_raised \/ code = OMX_ErrorStreamCorrupt)
    /\ hw_ok' = FALSE
    /\ UNCHANGED <<paramVars, call, objVars, compVars, port_changed, port_eos, bufVars, sesVars,
                   history, result, port_events, handler_e, handler_failed, pc, ops>>

\* the end-of-stream marker reaches the resize output port
HwEndOfStream ==
    /\ InSession
    /\ to_read = 0
    /\ tunnel = "enabled"
    /\ port_eos # "resizer_out_port"
    /\ port_eos' = "resizer_out_port"
    /\ UNCHANGED <<paramVars, call, objVars, compVars, event_error, port_changed, bufVars,
                   sesVars, obsVars, pc, ops>>

\* FillBufferDone: the resize stage returns an output buffer, filled
HwFillBufferDone ==
    /\ InSession
    /\ to_read = 0
    /\ tunnel = "enabled"
    /\ \E i \in DOMAIN hw_out :
         /\ hw_out[i]
         /\ hw_out' = [hw_out EXCEPT ![i] = FALSE]
         /\ out_free' = [out_free EXCEPT ![i] = 1]
    /\ out_filled' = TRUE
    /\ UNCHANGED <<paramVars, call, objVars, compVars, flagVars, in_free, hw_in, sesVars,
                   obsVars, pc, ops>>

(***************************************************************************)
(* Specifications.                                                         *)
(***************************************************************************)
SessionDims == {16}
SessionFormats == {OMX_COLOR_Format32bitABGR8888, OMX_COLOR_Format24bitRGB888}

\* one instance and its sessions
Init == InitWith(SessionDims, SessionDims, SessionFormats)

Next ==
    \/ Construct
    \/ CreateComponents
    \/ DoSetup
    \/ ConvertFromFile
    \/ Scan
    \/ Handle
    \/ Fill
    \/ LoopTail
    \/ Poll
    \/ EosCheck
    \/ Close
    \/ HwEmptyBufferDone
    \/ HwPortSettingsChanged
    \/ HwError
    \/ HwEndOfStream
    \/ HwFillBufferDone

Spec == Init /\ [][Next]_vars

\* arguments tried for SetImagePortDefinition: -1 is `no change'
UnknownFormat == "Unknown"
DefComponents == {0, 1, 2}
DefDirs == {0, 1}
DefCodings == {NoChange, OMX_IMAGE_CodingJPEG, UnknownFormat}
DefColors == {NoChange, OMX_COLOR_FormatYUV420PackedPlanar, OMX_COLOR_Format16bitRGB565,
              OMX_COLOR_Format32bitABGR8888, UnknownFormat}
DefSizes == {-1, MaxDim, 2 * MaxDim - 2}
DefCounts == {0, 1, NumInBuf + 1}
DefSites == {"def_get", "def_set"}

\* lines 339-445, called once on an instance whose constructor succeeded
DoSetImagePortDefinition ==
    /\ pc = "idle" /\ ready /\ ~call.made
    /\ \E ci \in DefComponents, pd \in DefDirs, coding \in DefCodings, color \in DefColors,
          width \in DefSizes, height \in DefSizes, num_buffers \in DefCounts,
          o \in Outcomes(DefSites, MaxFaults - faults) :
         \E r \in {SetImagePortDefinition(Here, ci, pd, coding, color, width, height,
                                           num_buffers, o)} :
             /\ Adopt(r)
             /\ faults' = faults + Failed(r.ops)
             /\ call' = [made |-> TRUE, component_index |-> ci, port_dir |-> pd,
                         coding |-> coding, color |-> color, width |-> width,
                         height |-> height, num_buffers |-> num_buffers,
                         before |-> port_def[PortIndex(IF ci = 0 THEN 0 ELSE 1, pd)],
                         rc |-> r.rc]
    /\ UNCHANGED <<paramVars, created, port_eos, out_filled, locVars, sent, history, result,
                   hw_ok, corrupt_raised, port_events, handler_e, handler_failed, pc>>

InitDef == InitWith(SessionDims, SessionDims, {OMX_COLOR_Format32bitABGR8888})

NextDef ==
    \/ Construct
    \/ CreateComponents
    \/ DoSetup
    \/ DoSetImagePortDefinition

\* one instance and one SetImagePortDefinition call on it
SpecDef == InitDef /\ [][NextDef]_vars

\* the constructor alone, over a range of sizes
InitCtor == InitWith(0..MaxDim, {0, 16}, OutFormats)

NextCtor ==
    \/ Construct
    \/ CreateComponents
    \/ DoSetup

SpecCtor == InitCtor /\ [][NextCtor]_vars

\* the application thread moves on inside a ConvertFromFile call: its
\* position, its loop index or its poll counter changes.  Inside a call one of
\* Scan, Handle, Fill, LoopTail, Poll and EosCheck is always possible, and the
\* steps of Next that change posVars there are the steps of these six actions.
Advance ==
    /\ InSession
    /\ pc' \in {"scan", "handle", "fill", "tail", "poll", "eos_check", "idle"}
    /\ n' \in 0..NumInBuf
    /\ timer' \in 0..PollBudget

\* where the application thread is
posVars == <<pc, n, timer>>

\* the application thread keeps running, and every wait it makes returns (a
\* wait is part of the step that makes it); the hardware's callbacks may
\* never come
SpecFair == Init /\ [][Next]_vars /\ WF_posVars(Advance)

(***************************************************************************)
(* Properties.                                                             *)
(***************************************************************************)
Submissions == {"EmptyThisBuffer", "FillThisBuffer"}
ValidFile(file) == file.exists /\ file.size > 0
SupportedFormats == {OMX_COLOR_FormatYUV420PackedPlanar, OMX_COLOR_Format16bitRGB565,
                     OMX_COLOR_Format32bitABGR8888}

\* C1: a finished ConvertFromFile call returned the input's byte count exactly
\* when the instance was ready, the file existed and was not empty, no handler
\* invocation of the session returned an error, the end-of-stream marker was
\* seen and the buffer-filled wait succeeded; it returned 0 otherwise.
ReturnsSizeOnlyOnFullSuccess ==
    result.done =>
        result.ret = IF /\ result.ready /\ ValidFile(result.file)
                        /\ ~result.handler_failed /\ result.eos /\ result.filled
                     THEN result.file.size
                     ELSE 0

FullSuccessReached == result.done /\ result.ret > 0 /\ result.ret = result.file.size

\* C2: no EmptyThisBuffer and no FillThisBuffer is issued in a session after
\* the decode stage raised StreamCorrupt in it.
NoSubmissionAfterStreamCorrupt ==
    \A i \in 1..Len(ops) : ops[i].op \in Submissions => ~ops[i].err

\* C3: a ConvertFromFile call on a missing or empty file returns 0, issues no
\* hardware call and leaves ready, setup_complete, the buffers' flags, the
\* cached event flags and the components as they were.
MissingOrEmptyFileChangesNothing ==
    [][(pc = "idle" /\ pc' # "closed" /\ ~ValidFile(file_name'))
       => /\ pc' = "idle"
          /\ result'.done /\ result'.ret = 0 /\ result'.file = file_name'
          /\ ops' = <<>>
          /\ UNCHANGED <<ready, setup_complete, flagVars, bufVars, compVars>>]_vars

RejectedWithBuffersInUse ==
    /\ pc = "idle" /\ ready /\ Len(history) = 2
    /\ result.done /\ ~ValidFile(result.file) /\ result.ret = 0
    /\ \E i \in DOMAIN in_free : in_free[i] = 0 /\ hw_in[i]

\* C4: on a ready instance whose hardware has behaved well in every session so
\* far, two successive sessions on the same valid file return the same value,
\* the file's size.
RepeatedSessionReturnsSame ==
    \A i \in 1..(Len(history) - 1) :
        (/\ ready /\ history[i].file = history[i + 1].file /\ ValidFile(history[i].file)
         /\ \A j \in 1..(i + 1) : history[j].hw_ok)
        => /\ history[i].ret = history[i + 1].ret
           /\ history[i + 1].ret = history[i + 1].file.size

SecondSessionRenegotiated ==
    /\ pc = "idle" /\ Len(history) = 2
    /\ history[1].file = history[2].file /\ ValidFile(history[1].file)
    /\ history[1].hw_ok /\ history[2].hw_ok
    /\ history[2].ret = history[2].file.size
    /\ port_events = 1 /\ port_changed = NoPort

\* C5: whichever variant set the instance up, after a first session on a valid
\* file with well-behaved hardware the call returned the file's size, setup is
\* complete, the tunnel is enabled, the resize stage is Executing, its output
\* pool is enabled and the output buffer size is the one the hardware gives for
\* the size computed at construction.
BothVariantsReachSteadyState ==
    (/\ pc = "idle" /\ ready /\ Len(history) = 1
     /\ ValidFile(history[1].file) /\ history[1].hw_ok)
    => /\ history[1].ret = history[1].file.size
       /\ setup_complete
       /\ tunnel = "enabled"
       /\ current_state["resizer"] = OMX_StateExecuting
       /\ pool["resizer_out_port"]
       /\ num_out_buf = NumOutBuf
       /\ out_buf_size = HwBufSize(OutBufSize(out_width, out_height, out_format))

AlternateVariantSteady ==
    /\ alt_setup # 0 /\ pc = "idle" /\ ready /\ Len(history) = 1
    /\ ValidFile(history[1].file) /\ history[1].hw_ok
    /\ history[1].ret = history[1].file.size /\ setup_complete

\* C6: ready becomes true only in the Setup call of the constructor, with both
\* components created and every call of Setup successful, so no later call
\* sets it; with an unsupported output format no component is ever created
\* and no hardware call is ever issued.
ConstructionFailureIsPermanent ==
    [][/\ (ready' /\ ~ready) => (pc = "setup" /\ created /\ AllOk(ops'))
       /\ (out_format \notin SupportedFormats)
          => (~created' /\ ops' = <<>> /\ ~ready')]_vars

FailedSetupThenSession ==
    /\ pc = "idle" /\ created /\ ~ready /\ faults > 0
    /\ Len(history) >= 1 /\ result.done /\ result.ret = 0

\* C7: the output buffer size computed at construction is
\* align16(width) * align16(height) * bytesPerPixel(format), with 1, 2 and 4
\* bytes per pixel for YUV420PackedPlanar, 16bitRGB565 and 32bitABGR8888.
BytesPerPixel(F) ==
    IF F = OMX_COLOR_FormatYUV420PackedPlanar THEN 1
    ELSE IF F = OMX_COLOR_Format16bitRGB565 THEN 2
    ELSE 4

OutputBufferSizeAtConstruction ==
    (pc \in {"create", "setup"})
    => /\ out_format \in SupportedFormats
       /\ out_buf_size = (((out_width + 15) \div 16) * 16) * (((out_height + 15) \div 16) * 16)
                         * BytesPerPixel(out_format)

UnalignedRgb565Computed ==
    /\ pc = "setup" /\ out_format = OMX_COLOR_Format16bitRGB565
    /\ out_width % 16 # 0 /\ out_height % 16 # 0 /\ out_width # out_height

\* C8: the rounding is idempotent and never below its argument, for the widths
\* and heights given to the constructor and for the slice height and stride
\* that Setup writes to the resize output port.
Align16IdempotentAndNotSmaller ==
    /\ \A x \in {out_width, out_height, in_width, in_height} :
           Align16(Align16(x)) = Align16(x) /\ Align16(x) >= x
    /\ (ready /\ alt_setup = 0)
       => LET d == port_def["resizer_out_port"]
          IN  /\ d.nSliceHeight >= out_height
              /\ Align16(d.nSliceHeight) = d.nSliceHeight
              /\ d.nStride >= out_width * BytesPerPixel(out_format)

UnalignedHeightRounded ==
    /\ ready /\ alt_setup = 0 /\ out_height > 16 /\ out_width % 16 = 1
    /\ port_def["resizer_out_port"].nSliceHeight > out_height

\* C9: when a settings-changed wait issued by the handler fails, the handler
\* returns an error and does not set setup_complete.
FailedWaitSurfaces ==
    (\E i \in 1..Len(ops) : ops[i].op = "WaitForPortSettingsChanged" /\ ~ops[i].ok)
    => (handler_e # OMX_ErrorNone /\ handler_failed)

\* C10: no buffer is submitted while the hardware holds it, and no
\* decode-input buffer is marked free while the hardware holds it.
ExclusiveOwnership ==
    /\ \A i \in 1..Len(ops) : ops[i].op \in Submissions => ~ops[i].held
    /\ \A i \in DOMAIN in_free : hw_in[i] => in_free[i] = 0

\* the entries of the last step's log that issue call name
Calls(name) == {i \in 1..Len(ops) : ops[i].op = name}

\* the entries of the last step's log that enable the pool of port
PoolEnablings(port) == {i \in Calls("EnableBuffers") : ops[i].arg = port}

\* entry i of the log comes right after a request to move comp to target, and
\* comp is in target if that request succeeded
RightAfterMoveTo(i, comp, target) ==
    \E j \in Calls("ChangeState") :
        /\ j < i /\ ops[j].comp = comp /\ ops[j].arg = target
        /\ \A k \in Calls("ChangeState") : (k < i /\ ops[k].comp = comp) => k <= j
        /\ ops[j].ok => ops[i].at = target

\* C11 as stated: whenever a buffer pool is enabled on a port, the stage that
\* owns the port is in Loaded or Idle.
PoolsEnabledInLoadedOrIdle ==
    \A i \in Calls("EnableBuffers") : ops[i].at \in {OMX_StateLoaded, OMX_StateIdle}

\* C11, amended: the resize-output pool of the standard variant is enabled
\* with the resize stage in Loaded or Idle, right after the request to move it
\* to Idle; the decode-input pool is enabled right after the request to move
\* the decode stage to Executing, and the resize-output pool of the alternate
\* variant right after the request to move the resize stage to Executing: each
\* of these two stages is Executing then if that request succeeded.
PoolsEnabledAfterTheirStateChange ==
    /\ \A i \in PoolEnablings("decoder_in_port") :
           RightAfterMoveTo(i, "decoder", OMX_StateExecuting)
    /\ \A i \in PoolEnablings("resizer_out_port") :
           IF alt_setup = 0
           THEN /\ ops[i].at \in {OMX_StateLoaded, OMX_StateIdle}
                /\ RightAfterMoveTo(i, "resizer", OMX_StateIdle)
           ELSE RightAfterMoveTo(i, "resizer", OMX_StateExecuting)

PoolsEnabledWhileExecuting ==
    /\ alt_setup # 0 /\ setup_complete
    /\ \E i \in PoolEnablings("resizer_out_port") :
           ops[i].ok /\ ops[i].at = OMX_StateExecuting


\* neighbours in the order Loaded, Idle, Executing
Adjacent(a, b) ==
    \/ {a, b} = {OMX_StateLoaded, OMX_StateIdle}
    \/ {a, b} = {OMX_StateIdle, OMX_StateExecuting}

\* C12: every state change requested targets a state adjacent to the state
\* the stage is in when the request is made.
StateChangesAreAdjacent ==
    \A i \in Calls("ChangeState") : Adjacent(ops[i].at, ops[i].arg)

\* the calls of a log, in order: each with its argument
Called(log) == [i \in 1..Len(log) |-> <<log[i].op, log[i].arg>>]

\* lines 470 and 235-252: the calls of a first negotiation (standard variant)
WaitDecoderOut == <<"WaitForPortSettingsChanged", "decoder_out_port">>
TunnelSetupCalls ==
    << <<"GetPortDefinition", "decoder_out_port">>,
       <<"SetPortDefinition", "resizer_in_port">>,
       <<"PlaceOutTunnel", "decoder_out_port">>,
       <<"ChangeState", OMX_StateExecuting>>,
       <<"EnableOutTunnel", "decoder_out_port">>,
       <<"WaitForPortSettingsChanged", "resizer_out_port">> >>

\* the same when GetPortDefinition fails: CopyPortDefinition returns at line 313
TunnelSetupCallsNoSet == <<TunnelSetupCalls[1]>> \o SubSeq(TunnelSetupCalls, 3, 6)

\* a step that runs the first-time path of the handler (lines 467-478)
FirstNegotiationStep ==
    /\ ~setup_complete /\ ops' # ops /\ ops' # <<>>
    /\ Called(ops')[1] = WaitDecoderOut

\* C13: in the standard variant a first negotiation waits for the decode
\* output's settings-changed event and, once received, copies the decode-output
\* definition onto the resize input, places the tunnel, moves the resizer to
\* Executing, enables the tunnel and waits for the resize output's
\* settings-changed event, in this order; setup_complete becomes true only
\* after that second wait was performed, and only if every step before it
\* reported no error.
StandardFirstNegotiationOrder ==
    [][(alt_setup = 0 /\ FirstNegotiationStep)
       => /\ IF ~ops'[1].ok THEN Len(ops') = 1
             ELSE Called(ops') \in {<<WaitDecoderOut>> \o TunnelSetupCalls,
                                    <<WaitDecoderOut>> \o TunnelSetupCallsNoSet}
          /\ setup_complete' <=> (/\ Called(ops') = <<WaitDecoderOut>> \o TunnelSetupCalls
                                  /\ \A i \in 1..(Len(ops') - 1) : ops'[i].ok)]_vars

StandardFirstNegotiationDone ==
    /\ alt_setup = 0 /\ setup_complete
    /\ Called(ops) = <<WaitDecoderOut>> \o TunnelSetupCalls
    /\ AllOk(ops)

\* lines 274-295: the calls of SetupPipe in the alternate variant
AlternatePipeCalls ==
    << <<"GetPortDefinition", "resizer_out_port">>,
       <<"SetPortDefinition", "resizer_out_port">>,
       <<"ChangeState", OMX_StateIdle>> >>
    \o TunnelSetupCalls
    \o << <<"EnableBuffers", "resizer_out_port">> >>

IsNoSet(c) == c[1] # "SetPortDefinition"

\* lines 312-313 and 385-387: a definition is written right after it was read,
\* and only if the read succeeded
WrittenIffRead(log) ==
    \A i \in 1..Len(log) :
        log[i].op = "GetPortDefinition"
        => (log[i].ok <=> (i < Len(log) /\ log[i + 1].op = "SetPortDefinition"))

\* C14: in the alternate variant Setup enables the decode-input pool only: the
\* resize-output buffer count is 0 and the resize stage is neither configured
\* nor moved.  A first negotiation that received the decode output's
\* settings-changed event configures the resize output, moves the resizer to
\* Idle, runs the tunnel setup (copy, place, Executing, enable, wait) and only
\* then enables the resize-output pool.  No fill of a resize-output buffer is
\* requested while that pool is not enabled.
AlternateVariantDefersOutputPool ==
    [][alt_setup # 0
       => /\ (pc = "setup")
             => /\ \A i \in 1..Len(ops') : ops'[i].comp = "decoder"
                /\ PoolEnablings("decoder_in_port")' # {}
                /\ num_out_buf' = 0 /\ ~pool'["resizer_out_port"]
                /\ current_state'["resizer"] = current_state["resizer"]
                /\ port_def'["resizer_out_port"] = port_def["resizer_out_port"]
                /\ port_def'["resizer_in_port"] = port_def["resizer_in_port"]
          /\ (FirstNegotiationStep /\ ops'[1].ok)
             => /\ SelectSeq(Tail(Called(ops')), IsNoSet) = SelectSeq(AlternatePipeCalls, IsNoSet)
                /\ WrittenIffRead(ops')
                /\ AllOk(ops') => Called(ops') = <<WaitDecoderOut>> \o AlternatePipeCalls
          /\ (FirstNegotiationStep /\ ~ops'[1].ok) => Len(ops') = 1
          /\ Calls("FillThisBuffer")' # {} => pool'["resizer_out_port"]]_vars

AlternateFirstNegotiationDone ==
    /\ alt_setup # 0 /\ setup_complete /\ pool["resizer_out_port"]
    /\ Called(ops) = <<WaitDecoderOut>> \o AlternatePipeCalls
    /\ AllOk(ops)

\* a step that invokes the handler: lines 585-586, 596-597 and 606-607
HandlerStep ==
    \/ pc \in {"handle", "tail"} /\ pc' # pc
    \/ pc = "poll" /\ pc' # "eos_check" /\ (timer' # timer \/ pc' # pc)

\* lines 488-501: the calls of the lighter path
LighterPathCalls ==
    << <<"DisableOutTunnel", "decoder_out_port">>,
       <<"GetPortDefinition", "decoder_out_port">>,
       <<"SetPortDefinition", "resizer_in_port">>,
       <<"EnableOutTunnel", "decoder_out_port">>,
       <<"WaitForPortSettingsChanged", "resizer_out_port">> >>

\* the step issues the calls of the lighter path, once each and in order
LighterPathTaken ==
    /\ SelectSeq(Called(ops'), IsNoSet) = SelectSeq(LighterPathCalls, IsNoSet)
    /\ WrittenIffRead(ops')
    /\ port_changed' = NoPort

NoSetupCalls ==
    \A i \in 1..Len(ops') :
        ops'[i].op \notin {"ChangeState", "PlaceOutTunnel", "EnableBuffers"}

\* C15 as stated: once setup_complete is true, a handler invocation that finds
\* a decode-output settings-changed event pending disables the tunnel, copies
\* the definition, enables the tunnel again and waits once, and nothing else;
\* no handler invocation issues a state change, a tunnel placement or a pool
\* enablement; with no event pending it issues no call and returns success.
LighterPathAlways ==
    [][(setup_complete /\ HandlerStep)
       => /\ NoSetupCalls
          /\ IF port_changed = "decoder_out_port" THEN LighterPathTaken
             ELSE ops' = <<>> /\ handler_e' = OMX_ErrorNone]_vars

\* C15, amended: the same for every handler invocation that does not return
\* the StreamCorrupt error caught at its entry; one that does issues no call.
LighterPathUnlessStreamCorrupt ==
    [][(setup_complete /\ HandlerStep)
       => /\ NoSetupCalls
          /\ IF handler_e' = OMX_ErrorStreamCorrupt
             THEN ops' = <<>> /\ event_error = OMX_ErrorStreamCorrupt
             ELSE IF port_changed = "decoder_out_port" THEN LighterPathTaken
             ELSE ops' = <<>> /\ handler_e' = OMX_ErrorNone]_vars

LighterPathDone ==
    /\ setup_complete /\ Called(ops) = LighterPathCalls /\ AllOk(ops)
    /\ handler_e = OMX_ErrorNone /\ port_events = 1 /\ Len(history) = 1

\* C16: the decode-output definition is never written onto the resize input
\* port while the tunnel between the two stages is placed and enabled.
NoCopyThroughEnabledTunnel ==
    \A i \in Calls("SetPortDefinition") :
        ops[i].arg = "resizer_in_port" => ops[i].tun # "enabled"

\* C17: a decode-input buffer that is marked in use has been submitted to the
\* hardware, with its filled length, offset and end-of-stream flag set: no
\* buffer is left in use without having been submitted.
InUseBuffersWereSubmitted ==
    /\ \A i \in DOMAIN in_free : in_free[i] = 0 => hw_in[i]
    /\ \A i \in Calls("EmptyThisBuffer") :
           in_hdr[ops[i].buf].nFilledLen > 0 /\ in_hdr[ops[i].buf].nOffset = 0

\* the bytes submitted by a sequence of headers
RECURSIVE FilledSum(_)
FilledSum(hdrs) == IF hdrs = <<>> THEN 0 ELSE Head(hdrs).nFilledLen + FilledSum(Tail(hdrs))

\* C18: once a session has consumed its whole input, exactly one of the input
\* buffers it submitted carries the end-of-stream flag: the last one, whose
\* chunk exhausted the source; every earlier one has the flag cleared, and the
\* filled lengths of the submitted buffers sum to the input's byte count.
EndOfStreamOnLastChunkOnly ==
    (f_size > 0 /\ to_read = 0)
    => /\ Len(sent) >= 1
       /\ {i \in 1..Len(sent) : sent[i].nFlags = OMX_BUFFERFLAG_EOS} = {Len(sent)}
       /\ \A i \in 1..(Len(sent) - 1) :
              sent[i].nFlags = 0 /\ FilledSum(SubSeq(sent, 1, i)) < f_size
       /\ \A i \in 1..Len(sent) : sent[i].nFilledLen > 0
       /\ FilledSum(sent) = f_size

ThreeChunksConsumed ==
    /\ InSession /\ to_read = 0 /\ Len(sent) = 3 /\ f_size = 3 * FileStep
    /\ sent[3].nFlags = OMX_BUFFERFLAG_EOS /\ sent[3].nFilledLen < in_buf_size

\* a step of the application thread (the hardware's callbacks change none of these)
ApplicationStep ==
    <<pc, locVars, ops, handler_e, history>>' # <<pc, locVars, ops, handler_e, history>>

\* C19: the application step that follows a decode-input submission invokes
\* the handler, so no submission follows an input submission without a handler
\* invocation in between; a handler invocation that returns an error ends the
\* call, so the one in between returned success; and every iteration of the
\* end-of-stream poll invokes the handler.
HandlerFollowsEverySubmission ==
    [][ApplicationStep
       => /\ Calls("EmptyThisBuffer") # {} => handler_e' # NotCalled
          /\ (\E i \in 1..Len(ops') : ops'[i].op \in Submissions)
             => /\ Calls("EmptyThisBuffer") = {}
                /\ handler_e \in {NotCalled, OMX_ErrorNone}
                /\ handler_e' = NotCalled
          /\ (handler_e' # NotCalled /\ handler_e' # OMX_ErrorNone) => pc' = "idle"
          /\ (pc = "poll" /\ pc' # "eos_check") => handler_e' # NotCalled]_vars

HandlerInvokedWhilePolling ==
    /\ pc = "poll" /\ timer = PollBudget /\ handler_e = OMX_ErrorNone
    /\ Len(sent) = 3 /\ port_eos # "resizer_out_port"

\* C20: every ConvertFromFile call eventually returns, whatever the hardware
\* does or fails to do, as long as every wait returns within its timeout.
EveryCallReturns == InSession ~> pc = "idle"

\* the port a SetImagePortDefinition call names
CallPort == PortIndex(call.component_index, call.port_dir)

\* the hardware set calls the last step issued
SetCalls == Calls("SetPortDefinition") \cup Calls("SetImagePortFormat")

\* the call names an undefined component or an unsupported coding or color
CallRejected ==
    \/ call.component_index \notin {0, 1}
    \/ call.coding # NoChange /\ call.coding \notin omx_image_coding_names
    \/ call.color # NoChange /\ call.color \notin omx_color_format_names

\* the call specifies some field of the port
CallSpecifies ==
    \/ call.coding # NoChange \/ call.color # NoChange
    \/ call.width >= 0 \/ call.height >= 0
    \/ call.num_buffers > call.before.nBufferCountMin

\* C21: SetImagePortDefinition applies a partial update.  A rejected call returns
\* an error and issues no hardware set call.  An accepted call whose hardware
\* calls succeed returns 0 and leaves on the port every specified field (coding,
\* color, width, height, a buffer count above the minimum) with the given value
\* and every other field with the value read; it issues a set call when a field
\* is specified, the format-only call when only coding or color are, and the
\* full call with stride and slice height multiples of 16 when width or height
\* is.
PartialUpdateApplied ==
    call.made =>
        /\ CallRejected => call.rc # OMX_ErrorNone /\ SetCalls = {}
        /\ ~CallRejected /\ AllOk(ops) =>
            LET d == port_def[CallPort]
                b == call.before
            IN  /\ call.rc = OMX_ErrorNone
                /\ d.eCompressionFormat =
                       IF call.coding # NoChange THEN call.coding ELSE b.eCompressionFormat
                /\ d.eColorFormat =
                       IF call.color # NoChange THEN call.color ELSE b.eColorFormat
                /\ d.nFrameWidth = IF call.width >= 0 THEN call.width ELSE b.nFrameWidth
                /\ d.nFrameHeight = IF call.height >= 0 THEN call.height ELSE b.nFrameHeight
                /\ d.nBufferCountActual =
                       IF call.num_buffers > b.nBufferCountMin THEN call.num_buffers
                       ELSE b.nBufferCountActual
                /\ d.nBufferCountMin = b.nBufferCountMin
                /\ CallSpecifies => SetCalls # {}
                /\ (call.width < 0 /\ call.height < 0
                    /\ (call.coding # NoChange \/ call.color # NoChange))
                   => Calls("SetImagePortFormat") # {} /\ Calls("SetPortDefinition") = {}
                /\ (call.width >= 0 \/ call.height >= 0)
                   => /\ Calls("SetPortDefinition") # {}
                      /\ d.nStride % 16 = 0
                      /\ d.nSliceHeight % 16 = 0


\* the calls of the given kind that the step issues and the hardware carries out
Done(name, arg) ==
    {i \in 1..Len(ops') : ops'[i].op = name /\ ops'[i].arg = arg /\ ops'[i].ok}

\* C22: over the lifetime of an instance the decoder-to-resizer tunnel is
\* placed at most once and the resize-output pool is enabled at most once, also
\* when a session fails during first-time negotiation and another follows: a
\* step places the tunnel only if it was not placed, enables the pool only if
\* it was not enabled; and setup_complete never returns from true to false.
TunnelAndPoolSetUpOnce ==
    [][/\ setup_complete => setup_complete'
       /\ ApplicationStep
          => /\ Done("PlaceOutTunnel", "decoder_out_port") # {} => tunnel = "none"
             /\ Done("EnableBuffers", "resizer_out_port") # {}
                => ~pool["resizer_out_port"]]_vars


\* C23: while setup_complete is false a session submits at most one
\* decode-input buffer and requests no resize-output fill, in both variants:
\* the application step that follows the first submission invokes the handler,
\* and that invocation either sets setup_complete or makes the call return 0.
SetupCompletesOnFirstSubmission ==
    [][(ApplicationStep /\ ~setup_complete)
       => /\ Calls("EmptyThisBuffer") # {}
             => /\ handler_e' # NotCalled
                /\ \/ setup_complete' /\ handler_e' = OMX_ErrorNone
                   \/ /\ ~setup_complete' /\ pc' = "idle"
                      /\ history' = Append(history, [file |-> file_name, ret |-> 0,
                                                     hw_ok |-> hw_ok'])
          /\ ~setup_complete'
             => /\ Len(sent') <= 1
                /\ \A i \in 1..Len(ops') : ops'[i].op # "FillThisBuffer"]_vars

\* the alternate variant completed its setup on the first submission of a
\* session that follows a failed one
SetupCompletedInSecondSession ==
    /\ alt_setup = 1 /\ setup_complete /\ Len(history) = 1 /\ history[1].ret = 0
    /\ pc = "fill" /\ Len(sent) = 1 /\ handler_e = OMX_ErrorNone

====
